---- MODULE Spec2Model ----
(***************************************************************************)
(* Audio RNG: the entropy pipeline of AudioRNG (raw sample -> Von Neumann  *)
(* debiased bit -> byte -> SHA-256 digest -> entropy pool), its waterfall  *)
(* renderer (VisualizationManager) and the consumers that read and reset   *)
(* the pool (PasswordGenerator, FileGenerator).                            *)
(*                                                                         *)
(* The browser runs every callback to completion; the only places where a  *)
(* callback gives up control are its awaits.  processSamples awaits the    *)
(* digest, start awaits getUserMedia: each is split into the step up to    *)
(* the await and the step that resumes after it.                           *)
(***************************************************************************)
EXTENDS Integers, Sequences, FiniteSets, TLC

\* ------------------------------------------------------------------ bounds
MaxFrame == 3        \* longest frame of the free-sample specification
MaxRaw == 16         \* total number of samples of the free-sample specification
MaxCalls == 6        \* processSamples calls of the free-sample specification
BatchSize == 2       \* bytes per whitening batch (1000 in the source, scaled)
DigestLen == 1       \* bytes per digest (32 for SHA-256, scaled)
MinEntropy == 1      \* pool bytes a password needs (32 in the source, scaled)
FileSizeLimit == 2   \* largest file size (10485760 in the source, scaled)
MaxTicks == 4        \* number of frames the driver delivers
MaxPasses == 2       \* processSamples calls suspended at the digest at once
MaxStarts == 2       \* start() calls waiting for the microphone at once
InitWidth == 4       \* matrixWidth at construction (200 in the source, scaled)
InitHeight == 2      \* matrixHeight at construction (100 in the source, scaled)
MaxPool == 3         \* pool bytes of the renderer and consumer specifications
ChunkBase == 4       \* baseChunkSize of the grid renderer (2000 in the source, scaled)
MaxResets == 2       \* files requested in the waiting specification
PwMin == 1           \* shortest password (8 in the source, scaled)
PwMax == 3           \* longest password (64 in the source, scaled)
PwDefault == 1       \* password length of an empty field (16 in the source, scaled)

\* --------------------------------------------------------------- constants
ByteBits == 8

\* ------------------------------------------------------------------ inputs
SampleVals == {128, 255}

FramesUpTo(n) == UNION {[1..k -> SampleVals] : k \in 1..n}

\* the two samples whose Von Neumann pair yields the debiased bit b
PairFor(b) == IF b = 1 THEN <<255, 128>> ELSE <<128, 255>>

RECURSIVE Encode(_)
Encode(bits) == IF bits = <<>> THEN <<>> ELSE PairFor(Head(bits)) \o Encode(Tail(bits))

FrameByte == Encode(<<1, 0, 1, 1, 0, 0, 1, 0>>)
FrameHalf == Encode(<<0, 1, 1, 0>>)
FrameOdd == <<255>>
Frames == {FrameByte, FrameHalf, FrameOdd}

CharsetInputs == {0, 26}
PwLengthInputs == {0, PwDefault, PwMax - 1, PwMax + 1}
RangeInputs == {<<0, 255>>, <<5, 5>>, <<9, 3>>}
ByteInputs == {90, 165}
DigestInputs == [1..DigestLen -> ByteInputs]
SizeInputs == {0, 3, InitWidth, ByteBits * DigestLen + 1}
DirInputs == {"down", "up"}
PaceInputs == {"slow", "steady", "fast"}
FileSizeInputs == 0..(FileSizeLimit + 1)

VARIABLES
  rawBitBuffer,      \* AudioRNG.rawBitBuffer
  finalBitBuffer,    \* AudioRNG.finalBitBuffer
  collectedNumbers,  \* AudioRNG.collectedNumbers
  uintArray,         \* AudioRNG.uintArray, the entropy pool
  bitsEl,            \* the bits shown in #bits
  analyser,          \* AudioRNG.analyser: "null" or "node"
  animationFrameId,  \* "null" or "live" (the id of a scheduled drawLoop callback)
  rafQueue,          \* number of drawLoop callbacks the browser has scheduled
  starting,          \* start() calls suspended at getUserMedia
  passes,            \* processSamples calls suspended at sha256String
  lastBitCount,      \* VisualizationManager.lastBitCount
  rowAccumulator,    \* VisualizationManager.rowAccumulator
  offscreen,         \* the offscreen canvas: matrixHeight rows of matrixWidth cells
  matrixWidth,       \* VisualizationManager.matrixWidth
  matrixHeight,      \* VisualizationManager.matrixHeight
  newestOnTop,       \* VisualizationManager.newestOnTop
  isGenerating,      \* FileGenerator.isGenerating
  requiredDataSize,  \* FileGenerator.requiredDataSize
  generatedFile,     \* FileGenerator.generatedFile: the bytes of the blob
  fileInfo,          \* the text of #fileInfo
  passwordBox,       \* the text of #passwordBox ("password": the text of password)
  password,          \* the text generatePassword built last
  samples,           \* history: every sample read by processSamples, in order
  debiased,          \* history: every debiased bit pushed onto finalBitBuffer
  ticks,             \* history: number of frames delivered
  hashCalls,         \* history: number of sha256String calls
  poolOrder,         \* history: the sha256String call of each digest in the pool
  frameHigh,         \* history: highest frame number a sample was read from
  outOfOrder,        \* history: a sample was read after one of a later frame
  batchAfterEmit,    \* history: collectedNumbers.length right after the last emit
  resetCount,        \* history: number of resetDataBuffer calls
  pulledHigh,        \* history: pool bits pulled by the renderer since the pool's reset
  reread,            \* history: a pool bit was pulled a second time
  allTop,            \* history: every row since the grid was cleared went in at the top
  twin,              \* a second renderer, fed the same calls, with the other direction
  isMatrixComplete,  \* VisualizationManager.isMatrixComplete (grid renderer)
  throttled,         \* now - updateThrottle < updateInterval (grid renderer)
  idleRedraw,        \* history: the renderer presented the grid without a new row
  hashCallsAtReset,  \* history: hashCalls at the last resetDataBuffer
  numbersBox,        \* the text of #numbersBox
  tracing            \* whether the sample and bit histories are kept

pipeVars == <<rawBitBuffer, finalBitBuffer, collectedNumbers, uintArray, bitsEl,
              lastBitCount, rowAccumulator, offscreen,
              isGenerating, requiredDataSize, generatedFile, fileInfo,
              samples, debiased, hashCalls, poolOrder, frameHigh, outOfOrder,
              batchAfterEmit, resetCount,
              pulledHigh, reread, allTop, twin, isMatrixComplete, throttled,
              idleRedraw, hashCallsAtReset>>
driverVars == <<analyser, animationFrameId, rafQueue, starting>>
configVars == <<matrixWidth, matrixHeight, newestOnTop>>
vars == <<pipeVars, driverVars, configVars, passes, passwordBox, password, numbersBox, ticks,
          tracing>>
idleVars == <<driverVars, passes, passwordBox, password, numbersBox, ticks, tracing>>

\* ----------------------------------------------------------------- colours
ColorZero == "white"
ColorOne == "black"
ClearColor == "white"

\* ------------------------------------------------------- utility functions
Max(a, b) == IF a >= b THEN a ELSE b
Min(a, b) == IF a <= b THEN a ELSE b

\* (value << 1) | bit
ShiftOr(value, bit) == IF (value * 2) % 2 = 1 THEN value * 2 ELSE value * 2 + bit

RECURSIVE ShiftIn(_, _)
ShiftIn(bits, value) ==
  IF bits = <<>> THEN value ELSE ShiftIn(Tail(bits), ShiftOr(value, Head(bits)))

Reverse(s) == [i \in 1..Len(s) |-> s[Len(s) + 1 - i]]

bitsToUint8LsbFirst(bits) == ShiftIn(Reverse(bits), 0)

bitsToUint8(bits) == ShiftIn(bits, 0)

\* stand-in for crypto.subtle.digest: a fixed-length function of the input
RECURSIVE Mix(_, _)
Mix(str, acc) ==
  IF str = <<>> THEN acc ELSE Mix(Tail(str), (acc * 31 + Head(str) + 1) % 256)

sha256String(str) == [j \in 1..DigestLen |-> Mix(str, j)]

\* ------------------------------------------------- the state as one record
St == [rawBitBuffer |-> rawBitBuffer, finalBitBuffer |-> finalBitBuffer,
       collectedNumbers |-> collectedNumbers, uintArray |-> uintArray,
       bitsEl |-> bitsEl,
       lastBitCount |-> lastBitCount, rowAccumulator |-> rowAccumulator,
       offscreen |-> offscreen,
       isGenerating |-> isGenerating, requiredDataSize |-> requiredDataSize,
       generatedFile |-> generatedFile, fileInfo |-> fileInfo,
       samples |-> samples, debiased |-> debiased, hashCalls |-> hashCalls,
       poolOrder |-> poolOrder, frameHigh |-> frameHigh, outOfOrder |-> outOfOrder,
       batchAfterEmit |-> batchAfterEmit, resetCount |-> resetCount,
       pulledHigh |-> pulledHigh, reread |-> reread, allTop |-> allTop,
       twin |-> twin, isMatrixComplete |-> isMatrixComplete,
       throttled |-> throttled, idleRedraw |-> idleRedraw,
       hashCallsAtReset |-> hashCallsAtReset]

Commit(s) ==
  /\ rawBitBuffer' = s.rawBitBuffer
  /\ finalBitBuffer' = s.finalBitBuffer
  /\ collectedNumbers' = s.collectedNumbers
  /\ uintArray' = s.uintArray
  /\ bitsEl' = s.bitsEl
  /\ lastBitCount' = s.lastBitCount
  /\ rowAccumulator' = s.rowAccumulator
  /\ offscreen' = s.offscreen
  /\ isGenerating' = s.isGenerating
  /\ requiredDataSize' = s.requiredDataSize
  /\ generatedFile' = s.generatedFile
  /\ fileInfo' = s.fileInfo
  /\ samples' = s.samples
  /\ debiased' = s.debiased
  /\ hashCalls' = s.hashCalls
  /\ poolOrder' = s.poolOrder
  /\ frameHigh' = s.frameHigh
  /\ outOfOrder' = s.outOfOrder
  /\ batchAfterEmit' = s.batchAfterEmit
  /\ resetCount' = s.resetCount
  /\ pulledHigh' = s.pulledHigh
  /\ reread' = s.reread
  /\ allTop' = s.allTop
  /\ twin' = s.twin
  /\ isMatrixComplete' = s.isMatrixComplete
  /\ throttled' = s.throttled
  /\ idleRedraw' = s.idleRedraw
  /\ hashCallsAtReset' = s.hashCallsAtReset

\* ---------------------------------------------------- VisualizationManager
BlankGrid(w, h) == [y \in 1..h |-> [x \in 1..w |-> ClearColor]]

pullBit(arr, bitIndex) ==
  (arr[(bitIndex \div 8) + 1] \div (2 ^ (7 - (bitIndex % 8)))) % 2

RowColors(bitsRow) ==
  [x \in 1..Len(bitsRow) |-> IF bitsRow[x] = 1 THEN ColorOne ELSE ColorZero]

commitRowNoShift(grid, bitsRow, top) ==
  IF top
    THEN <<RowColors(bitsRow)>> \o SubSeq(grid, 2, Len(grid))
    ELSE SubSeq(grid, 2, Len(grid)) \o <<RowColors(bitsRow)>>

commitRowDropsNewest(grid, bitsRow, top) ==
  IF top
    THEN <<RowColors(bitsRow)>> \o SubSeq(grid, 1, Len(grid) - 1)
    ELSE SubSeq(grid, 1, Len(grid) - 1) \o <<RowColors(bitsRow)>>

commitRow(grid, bitsRow, top) ==
  IF top
    THEN <<RowColors(bitsRow)>> \o SubSeq(grid, 1, Len(grid) - 1)
    ELSE SubSeq(grid, 2, Len(grid)) \o <<RowColors(bitsRow)>>

\* the loop of _drawBitWaterfall; the accumulator after the push is bound to
\* its value once (a one-element set) so that every use reads the same value
RECURSIVE WaterfallLoop(_, _, _, _, _, _, _)
WaterfallLoop(acc, grid, i, totalBits, arr, rowW, top) ==
  IF i >= totalBits THEN [acc |-> acc, grid |-> grid]
  ELSE CHOOSE l \in
         {IF Len(a1) >= rowW
            THEN WaterfallLoop(SubSeq(a1, rowW + 1, Len(a1)),
                               commitRow(grid, SubSeq(a1, 1, rowW), top),
                               i + 1, totalBits, arr, rowW, top)
            ELSE WaterfallLoop(a1, grid, i + 1, totalBits, arr, rowW, top) :
          a1 \in {Append(acc, pullBit(arr, i))}} : TRUE

\* the streaming state of a renderer
Renderer(s) ==
  [lastBitCount |-> s.lastBitCount, rowAccumulator |-> s.rowAccumulator,
   offscreen |-> s.offscreen]

\* a renderer whose grid has just been cleared
ClearedRenderer(w, h) ==
  [lastBitCount |-> 0, rowAccumulator |-> <<>>, offscreen |-> BlankGrid(w, h)]

\* _drawBitWaterfall of a renderer of width rowW and direction top
drawBitWaterfall(r, arr, rowW, top) ==
  LET totalBits == Len(arr) * 8 IN
  IF totalBits <= r.lastBitCount THEN r
  ELSE LET l == WaterfallLoop(r.rowAccumulator, r.offscreen, r.lastBitCount,
                              totalBits, arr, rowW, top)
       IN [lastBitCount |-> totalBits, rowAccumulator |-> l.acc,
           offscreen |-> l.grid]

\* drawBitMatrix(uintArray) in waterfall mode; the twin gets the same call
drawBitMatrix(s) ==
  LET totalBits == Len(s.uintArray) * 8
      r == drawBitWaterfall(Renderer(s), s.uintArray, matrixWidth, newestOnTop)
      drew == totalBits > s.lastBitCount
      commits == drew /\ Len(s.rowAccumulator) + totalBits - s.lastBitCount
                           >= matrixWidth
  IN [s EXCEPT !.lastBitCount = r.lastBitCount,
               !.rowAccumulator = r.rowAccumulator,
               !.offscreen = r.offscreen,
               !.twin = drawBitWaterfall(s.twin, s.uintArray, matrixWidth,
                                         ~newestOnTop),
               !.reread = @ \/ (drew /\ s.lastBitCount < s.pulledHigh),
               !.pulledHigh = IF drew THEN Max(@, totalBits) ELSE @,
               !.allTop = @ /\ (newestOnTop \/ ~commits),
               !.idleRedraw = @ \/ (drew /\ ~commits)]

resetBitMatrixToKeepRow(s, w, h) ==
  [s EXCEPT !.lastBitCount = 0,
            !.offscreen = BlankGrid(w, h),
            !.twin = [ClearedRenderer(w, h) EXCEPT
                        !.rowAccumulator = s.twin.rowAccumulator],
            !.allTop = TRUE]

\* resetBitMatrix() of a renderer whose grid is w x h
resetBitMatrixTo(s, w, h) ==
  [s EXCEPT !.lastBitCount = 0, !.rowAccumulator = <<>>,
            !.offscreen = BlankGrid(w, h),
            !.twin = ClearedRenderer(w, h), !.allTop = TRUE]

resetBitMatrixKeepCursor(s) ==
  [resetBitMatrixTo(s, matrixWidth, matrixHeight)
     EXCEPT !.lastBitCount = s.lastBitCount]

resetBitMatrix(s) == resetBitMatrixTo(s, matrixWidth, matrixHeight)

\* ---------------------------------------------------------------- AudioRNG
resetDataBufferKeepTail(s) ==
  resetBitMatrix([s EXCEPT !.rawBitBuffer = <<>>, !.finalBitBuffer = <<>>,
                           !.collectedNumbers = <<>>,
                           !.uintArray = IF @ = <<>> THEN @ ELSE <<@[Len(@)]>>,
                           !.bitsEl = <<>>, !.poolOrder = <<>>,
                           !.resetCount = @ + 1, !.pulledHigh = 0,
                           !.hashCallsAtReset = s.hashCalls])

resetDataBuffer(s) ==
  resetBitMatrix([s EXCEPT !.rawBitBuffer = <<>>, !.finalBitBuffer = <<>>,
                           !.collectedNumbers = <<>>, !.uintArray = <<>>,
                           !.bitsEl = <<>>, !.poolOrder = <<>>,
                           !.resetCount = @ + 1, !.pulledHigh = 0,
                           !.hashCallsAtReset = s.hashCalls])

\* ----------------------------------------------------------- FileGenerator
createFileFromData(s, fileSize) ==
  resetDataBuffer([s EXCEPT !.generatedFile = SubSeq(s.uintArray, 1, fileSize),
                            !.fileInfo = <<"generated", fileSize>>,
                            !.isGenerating = FALSE])

updateProgressTextOnly(s) ==
  IF ~s.isGenerating \/ s.requiredDataSize = 0 THEN s
  ELSE [s EXCEPT !.fileInfo = <<"collecting", s.requiredDataSize, Len(s.uintArray)>>]

updateProgress(s) ==
  IF ~s.isGenerating \/ s.requiredDataSize = 0 THEN s
  ELSE LET s1 == [s EXCEPT !.fileInfo =
                     <<"collecting", s.requiredDataSize, Len(s.uintArray)>>]
       IN IF Len(s1.uintArray) >= s1.requiredDataSize
            THEN createFileFromData(s1, s1.requiredDataSize)
            ELSE s1

\* ------------------------------------------------ AudioRNG.processSamples
\* the debiased bits a raw pair contributes
VonNeumannSwapped(b1, b2) ==
  IF b1 = 0 /\ b2 = 1 THEN <<1>> ELSE IF b1 = 1 /\ b2 = 0 THEN <<0>> ELSE <<>>

VonNeumann(b1, b2) ==
  IF b1 = 0 /\ b2 = 1 THEN <<0>> ELSE IF b1 = 1 /\ b2 = 0 THEN <<1>> ELSE <<>>

\* one sample read: the raw bit is pushed; the history notes the frame it is from
ReadSample(s, sample, frameNo) ==
  [s EXCEPT !.rawBitBuffer = Append(@, sample % 2),
            !.samples = IF tracing THEN Append(@, sample) ELSE @,
            !.outOfOrder = @ \/ frameNo < s.frameHigh,
            !.frameHigh = Max(@, frameNo)]

\* the two raw bits are shifted out and their debiased bit, if any, is pushed
TakePair(s) ==
  LET out == VonNeumann(s.rawBitBuffer[1], s.rawBitBuffer[2]) IN
  [s EXCEPT !.rawBitBuffer = SubSeq(@, 3, Len(@)),
            !.finalBitBuffer = @ \o out,
            !.debiased = IF tracing THEN @ \o out ELSE @]

\* eight debiased bits become one byte of the batch
PackByte(s) ==
  [s EXCEPT !.collectedNumbers = Append(@, bitsToUint8(s.finalBitBuffer)),
            !.finalBitBuffer = <<>>]

\* the end of the call: the partial bits are displayed
EndOfCallDropCarry(s) == [s EXCEPT !.bitsEl = s.finalBitBuffer, !.rawBitBuffer = <<>>]

EndOfCall(s) == [s EXCEPT !.bitsEl = s.finalBitBuffer]

HashDue(s) == Len(s.collectedNumbers) >= BatchSize

\* the loop from sample i on: it runs to the end of the frame or to the next
\* await of the digest; susp holds the suspended call in the second case
RECURSIVE SampleLoop(_, _, _, _)
SampleLoop(s, data, i, frameNo) ==
  IF i > Len(data) THEN [st |-> EndOfCall(s), susp |-> <<>>]
  ELSE LET s1 == ReadSample(s, data[i], frameNo) IN
       IF Len(s1.rawBitBuffer) >= 2
         THEN LET s2 == TakePair(s1) IN
              IF Len(s2.finalBitBuffer) = ByteBits
                THEN LET s3 == PackByte(s2) IN
                     IF HashDue(s3)
                       THEN [st |-> [s3 EXCEPT !.hashCalls = @ + 1],
                             susp |-> <<[data |-> data, i |-> i, frameNo |-> frameNo,
                                         str |-> SubSeq(s3.collectedNumbers, 1, BatchSize),
                                         batchLen |-> Len(s3.collectedNumbers),
                                         call |-> s3.hashCalls + 1]>>]
                       ELSE SampleLoop(s3, data, i + 1, frameNo)
                ELSE SampleLoop(s2, data, i + 1, frameNo)
         ELSE SampleLoop(s1, data, i + 1, frameNo)

processSamples(s, data, frameNo) == SampleLoop(s, data, 1, frameNo)

\* the digest is appended and the batch cleared
EmitDigest(s, p) ==
  LET s1 == [s EXCEPT !.uintArray = @ \o sha256String(p.str),
                      !.collectedNumbers = <<>>,
                      !.poolOrder = Append(@, p.call)]
  IN [s1 EXCEPT !.batchAfterEmit = Len(s1.collectedNumbers)]

\* the continuation of a suspended call once its digest is there
AfterDigest(s, p) ==
  LET s1 == EmitDigest(s, p)
      s2 == drawBitMatrix(s1)
      s3 == IF s2.isGenerating THEN updateProgress(s2) ELSE s2
  IN SampleLoop(s3, p.data, p.i + 1, p.frameNo)

RemoveAt(seq, k) == SubSeq(seq, 1, k - 1) \o SubSeq(seq, k + 1, Len(seq))

\* ------------------------------------------------------------------- Init
Constructed ==
  /\ rawBitBuffer = <<>> /\ finalBitBuffer = <<>>
  /\ collectedNumbers = <<>> /\ uintArray = <<>>
  /\ bitsEl = <<>>
  /\ analyser = "null" /\ animationFrameId = "null"
  /\ rafQueue = 0 /\ starting = 0
  /\ passes = <<>>
  /\ lastBitCount = 0 /\ rowAccumulator = <<>>
  /\ matrixWidth = InitWidth /\ matrixHeight = InitHeight
  /\ offscreen = BlankGrid(InitWidth, InitHeight)
  /\ newestOnTop = TRUE
  /\ isGenerating = FALSE /\ requiredDataSize = 0
  /\ generatedFile = <<>> /\ fileInfo = <<"start">>
  /\ passwordBox = "" /\ password = <<>>
  /\ samples = <<>> /\ debiased = <<>>
  /\ ticks = 0 /\ hashCalls = 0 /\ poolOrder = <<>>
  /\ frameHigh = 0 /\ outOfOrder = FALSE
  /\ batchAfterEmit = 0
  /\ resetCount = 0
  /\ pulledHigh = 0 /\ reread = FALSE /\ allTop = TRUE
  /\ twin = ClearedRenderer(InitWidth, InitHeight)
  /\ isMatrixComplete = FALSE /\ throttled = FALSE
  /\ idleRedraw = FALSE /\ hashCallsAtReset = 0
  /\ numbersBox = ""

Init == Constructed /\ tracing = FALSE

\* ---------------------------------------------------------------- actions
\* processSamples(data) up to its first await, for a frame of the driver
RunFrame(data) ==
  LET r == processSamples(St, data, ticks + 1) IN
  /\ Commit(r.st)
  /\ passes' = passes \o r.susp
  /\ ticks' = ticks + 1

\* start(): the click, up to the await of getUserMedia
StartClick ==
  /\ starting < MaxStarts
  /\ starting' = starting + 1
  /\ UNCHANGED <<tracing, pipeVars, configVars, passes, passwordBox, password, numbersBox, ticks,
                 analyser, animationFrameId, rafQueue>>

\* start() resumed with the stream: setupAudioContext, resetBitMatrix, drawLoop
StartGranted ==
  /\ starting > 0
  /\ ticks < MaxTicks
  /\ Len(passes) < MaxPasses
  /\ \E data \in Frames :
       LET r == processSamples(resetBitMatrix(St), data, ticks + 1) IN
       /\ Commit(r.st)
       /\ passes' = passes \o r.susp
       /\ ticks' = ticks + 1
  /\ starting' = starting - 1
  /\ analyser' = "node"
  /\ rafQueue' = rafQueue + 1
  /\ animationFrameId' = "live"
  /\ UNCHANGED <<tracing, configVars, passwordBox, password, numbersBox>>

\* start() resumed with a rejection: the catch branch
StartDenied ==
  /\ starting > 0
  /\ starting' = starting - 1
  /\ UNCHANGED <<tracing, pipeVars, configVars, passes, passwordBox, password, numbersBox, ticks,
                 analyser, animationFrameId, rafQueue>>

\* drawLoop(), called back by requestAnimationFrame
DrawLoop ==
  /\ rafQueue > 0
  /\ animationFrameId' = "live"
  /\ UNCHANGED rafQueue
  /\ IF analyser = "null"
       THEN UNCHANGED <<pipeVars, passes, ticks>>
       ELSE /\ ticks < MaxTicks
            /\ Len(passes) < MaxPasses
            /\ \E data \in Frames : RunFrame(data)
  /\ UNCHANGED <<tracing, analyser, starting, configVars, passwordBox, password, numbersBox>>

\* the digest of a suspended processSamples call resolves
HashResolved ==
  /\ \E k \in 1..Len(passes) :
       LET r == AfterDigest(St, passes[k]) IN
       /\ Commit(r.st)
       /\ passes' = RemoveAt(passes, k) \o r.susp
  /\ UNCHANGED <<tracing, driverVars, configVars, passwordBox, password, numbersBox, ticks>>

\* stop()
Stop ==
  /\ analyser = "node"
  /\ rafQueue' = IF animationFrameId = "live" THEN rafQueue - 1 ELSE rafQueue
  /\ animationFrameId' = "null"
  /\ analyser' = "null"
  /\ isGenerating' = FALSE
  /\ requiredDataSize' = 0
  /\ fileInfo' = <<"start">>
  /\ UNCHANGED <<rawBitBuffer, finalBitBuffer, collectedNumbers, uintArray, bitsEl,
                 lastBitCount, rowAccumulator, offscreen, generatedFile,
                 samples, debiased, hashCalls, poolOrder, frameHigh, outOfOrder,
                 batchAfterEmit, resetCount,
                 pulledHigh, reread, allTop, twin, isMatrixComplete, throttled,
                 idleRedraw, hashCallsAtReset,
                 starting, configVars, passes, passwordBox, password, numbersBox, ticks, tracing>>

\* the 26 characters the upper-case box adds to charset
Upper ==
  <<"A", "B", "C", "D", "E", "F", "G", "H", "I", "J", "K", "L", "M",
    "N", "O", "P", "Q", "R", "S", "T", "U", "V", "W", "X", "Y", "Z">>

charsetOf(charsetLen) == SubSeq(Upper, 1, charsetLen)

\* a % n of JavaScript: the result has the sign of a
jsRem(a, n) == IF a >= 0 THEN a % n ELSE 0 - ((0 - a) % n)

\* what password += charset[r % charset.length] appends, r being uintArray[idx]:
\* below index 0 r is undefined, r % n is NaN, charset[NaN] is undefined and
\* the string "undefined" is appended
passwordChar(arr, charset, idx) ==
  IF idx < 0
    THEN <<"u", "n", "d", "e", "f", "i", "n", "e", "d">>
    ELSE <<charset[(arr[idx + 1] % Len(charset)) + 1]>>

\* Math.max(8, Math.min(64, n))
clampPwLength(n) == Max(PwMin, Min(PwMax, n))

RECURSIVE passwordLoop(_, _, _, _, _)
passwordLoop(text, i, pwLength, arr, charset) ==
  IF i >= pwLength THEN text
  ELSE passwordLoop(text \o passwordChar(arr, charset,
                                         jsRem(i + Len(arr) - pwLength, Len(arr))),
                    i + 1, pwLength, arr, charset)

\* generatePassword(uintArray) with a character set of charsetLen characters
\* and n in the #pwLength field
GeneratePasswordOf(charsetLen, n) ==
  /\ IF Len(uintArray) < MinEntropy
       THEN /\ passwordBox' = "Not enough random data yet. Wait for hashing..."
            /\ UNCHANGED <<pipeVars, password>>
       ELSE IF charsetLen = 0
         THEN /\ passwordBox' = "Please select at least one character set."
              /\ UNCHANGED <<pipeVars, password>>
         ELSE /\ passwordBox' = "password"
              /\ password' = passwordLoop(<<>>, 0, clampPwLength(n), uintArray,
                                          charsetOf(charsetLen))
              /\ Commit(resetDataBuffer(St))
  /\ UNCHANGED <<tracing, driverVars, configVars, passes, numbersBox, ticks>>

GeneratePasswordFromResets(charsetLen) ==
  /\ IF Len(uintArray) < MinEntropy
       THEN /\ passwordBox' = "Not enough random data yet. Wait for hashing..."
            /\ UNCHANGED <<pipeVars, password>>
       ELSE IF charsetLen = 0
         THEN /\ passwordBox' = "Please select at least one character set."
              /\ UNCHANGED password
              /\ Commit(resetDataBuffer(St))
         ELSE /\ passwordBox' = "password"
              /\ password' = passwordLoop(<<>>, 0, clampPwLength(PwDefault),
                                          uintArray, charsetOf(charsetLen))
              /\ Commit(resetDataBuffer(St))
  /\ UNCHANGED <<tracing, driverVars, configVars, passes, numbersBox, ticks>>

\* generatePassword(uintArray) with the length field left as it is
GeneratePasswordFrom(charsetLen) == GeneratePasswordOf(charsetLen, PwDefault)

\* PasswordGenerator.generatePassword(audioRNG.getRandomData())
GeneratePassword == \E charsetLen \in CharsetInputs : GeneratePasswordFrom(charsetLen)

GenerateNumbersInUnchecked(min, max) ==
  /\ IF min >= max
       THEN /\ numbersBox' = "Error: Min value must be less than max value."
            /\ UNCHANGED pipeVars
       ELSE /\ numbersBox' = "numbers"
            /\ Commit(resetDataBuffer(St))
  /\ UNCHANGED <<tracing, driverVars, configVars, passes, passwordBox, password, ticks>>

\* generateNumbers(uintArray) with the bounds min and max
GenerateNumbersIn(min, max) ==
  /\ IF Len(uintArray) < MinEntropy
       THEN /\ numbersBox' = "Not enough random data yet. Wait for hashing..."
            /\ UNCHANGED pipeVars
       ELSE IF min >= max
         THEN /\ numbersBox' = "Error: Min value must be less than max value."
              /\ UNCHANGED pipeVars
         ELSE /\ numbersBox' = "numbers"
              /\ Commit(resetDataBuffer(St))
  /\ UNCHANGED <<tracing, driverVars, configVars, passes, passwordBox, password, ticks>>

\* RandomNumberGenerator.generateNumbers(audioRNG.getRandomData())
GenerateNumbers == \E range \in RangeInputs : GenerateNumbersIn(range[1], range[2])

\* generateFile(uintArray) with n in the #fileSize field
GenerateFileOf(n) ==
  /\ LET fileSize == Max(1, Min(FileSizeLimit, n)) IN
     IF Len(uintArray) < fileSize
       THEN Commit([St EXCEPT !.requiredDataSize = fileSize,
                              !.isGenerating = TRUE,
                              !.fileInfo = <<"collecting", fileSize, Len(uintArray)>>])
       ELSE Commit(createFileFromData(St, fileSize))
  /\ UNCHANGED <<tracing, driverVars, configVars, passes, passwordBox, password, numbersBox, ticks>>

\* FileGenerator.generateFile(audioRNG.getRandomData())
GenerateFile == \E n \in FileSizeInputs : GenerateFileOf(n)

Next ==
  \/ StartClick
  \/ StartGranted
  \/ StartDenied
  \/ DrawLoop
  \/ HashResolved
  \/ Stop
  \/ GeneratePassword
  \/ GenerateFile

Spec == Init /\ [][Next]_vars

\* ------------------------------------------- the free-sample specification
\* processSamples applied to arbitrary frames, one call after the other
ProcessAnyFrame ==
  /\ \E data \in FramesUpTo(MaxFrame) :
       /\ Len(samples) + Len(data) <= MaxRaw
       /\ ticks < MaxCalls
       /\ RunFrame(data)
  /\ UNCHANGED <<tracing, driverVars, configVars, passwordBox, password, numbersBox>>

NextBits == ProcessAnyFrame

InitBits == Constructed /\ tracing = TRUE

SpecBits == InitBits /\ [][NextBits]_vars

\* -------------------------------------------- the consumer specification
\* the three consumers of the pool next to the running pipeline, Start being
\* clicked only while the pipeline is stopped
StartOnce == analyser = "null" /\ starting = 0 /\ StartClick

NextUse ==
  \/ StartOnce
  \/ StartGranted
  \/ DrawLoop
  \/ HashResolved
  \/ Stop
  \/ GeneratePassword
  \/ GenerateNumbers
  \/ GenerateFile

SpecUse == Init /\ [][NextUse]_vars

\* --------------------------------------------- the waiting specification
\* a file request waiting for the pool to grow: the frames are left out and
\* digests keep arriving while the pipeline runs
\* start() with the microphone granted, up to its call of drawLoop
StartRunning ==
  /\ analyser = "null"
  /\ analyser' = "node"
  /\ animationFrameId' = "live"
  /\ rafQueue' = rafQueue + 1
  /\ Commit(resetBitMatrix(St))
  /\ UNCHANGED <<starting, configVars, passes, passwordBox, password, numbersBox, ticks,
                 tracing>>

\* the digest is pushed, drawn and reported to the waiting file generator;
\* an idle pool is kept within MaxPool, a waiting one gets one digest more
PoolDigest ==
  /\ analyser = "node"
  /\ Len(uintArray) <= MaxPool - (IF isGenerating THEN 0 ELSE DigestLen)
  /\ \E digest \in DigestInputs :
       \E s1 \in {drawBitMatrix([St EXCEPT !.uintArray = @ \o digest])} :
         \E s2 \in {IF s1.isGenerating THEN updateProgress(s1) ELSE s1} :
           Commit(s2)
  /\ UNCHANGED <<configVars, idleVars>>

\* the Generate button is disabled while a request is waiting
RequestFile ==
  /\ ~isGenerating
  /\ resetCount < MaxResets
  /\ GenerateFile

NextWait ==
  \/ StartRunning
  \/ PoolDigest
  \/ Stop
  \/ RequestFile

SpecWait == Init /\ [][NextWait]_vars /\ WF_vars(PoolDigest)

\* -------------------------------------------- the renderer specification
\* the waterfall renderer driven through its interface: digests arrive and are
\* drawn, and the page changes the direction and the size of the grid
\* uintArray.push(...digest) followed by drawBitMatrix(uintArray)
RenderDigest ==
  /\ Len(uintArray) + DigestLen <= MaxPool
  /\ \E digest \in DigestInputs :
       Commit(drawBitMatrix([St EXCEPT !.uintArray = @ \o digest]))
  /\ UNCHANGED <<configVars, idleVars>>

\* setWaterfallDirection(dir)
SetWaterfallDirection(dir) ==
  /\ newestOnTop' = (dir = "down")
  /\ UNCHANGED <<matrixWidth, matrixHeight, pipeVars, idleVars>>

ClampDimNone(n) == n

\* Math.max(1, n | 0)
ClampDim(n) == Max(1, n)

\* setMatrixSize(cols, rows)
SetMatrixSize(cols, rows) ==
  /\ matrixWidth' = ClampDim(cols)
  /\ matrixHeight' = ClampDim(rows)
  /\ Commit(resetBitMatrixTo(St, ClampDim(cols), ClampDim(rows)))
  /\ UNCHANGED <<newestOnTop, idleVars>>

NextRender ==
  \/ RenderDigest
  \/ \E dir \in DirInputs : SetWaterfallDirection(dir)
  \/ \E cols \in SizeInputs, rows \in SizeInputs : SetMatrixSize(cols, rows)

SpecRender == Init /\ [][NextRender]_vars

\* -------------------------------------------- the password specification
\* digests fill the pool and a password of any length is asked for, at most
\* MaxResets times with success
GeneratePasswordAny ==
  /\ resetCount < MaxResets
  /\ \E charsetLen \in CharsetInputs, n \in PwLengthInputs :
       GeneratePasswordOf(charsetLen, n)

NextPassword ==
  \/ RenderDigest
  \/ GeneratePasswordAny

SpecPassword == Init /\ [][NextPassword]_vars

\* ------------------------------------------- the grid renderer (script.js)
\* the renderer of script.js paints bit i into cell i of the grid, a bounded
\* chunk of bits per call and at most one call per updateInterval
\* calculateOptimalChunkSize(): pace stands for averageUpdateTime (> 16 ms
\* slow, < 8 ms fast)
calculateOptimalChunkSize(pace) ==
  IF pace = "slow" THEN Max(ChunkBase \div 4, ChunkBase \div 2)
  ELSE IF pace = "fast" THEN Min((ChunkBase * 5) \div 2, (ChunkBase * 3) \div 2)
  ELSE ChunkBase

\* updatePixelsBatch(bits, startBitIndex, endBitIndex)
updatePixelsBatch(grid, arr, startBitIndex, endBitIndex) ==
  [y \in 1..Len(grid) |->
     [x \in 1..Len(grid[y]) |->
        LET bitIndex == (y - 1) * matrixWidth + (x - 1) IN
        IF bitIndex >= startBitIndex /\ bitIndex < endBitIndex
          THEN IF pullBit(arr, bitIndex) = 1 THEN ColorOne ELSE ColorZero
          ELSE grid[y][x]]]

\* performFullRefresh()
performFullRefresh(s) ==
  [s EXCEPT !.isMatrixComplete = FALSE, !.lastBitCount = 0,
            !.offscreen = BlankGrid(matrixWidth, matrixHeight)]

\* drawBitMatrix(uintArray) of script.js
drawBitGridChunk(s, pace) ==
  IF s.throttled THEN s
  ELSE LET s0 == [s EXCEPT !.throttled = TRUE]
           currentBitCount == Len(s.uintArray) * 8
           maxMatrixBits == matrixWidth * matrixHeight
           newBitsCount == Min(currentBitCount - s.lastBitCount,
                               calculateOptimalChunkSize(pace))
           endBitIndex == Min(s.lastBitCount + newBitsCount, maxMatrixBits)
           last == Min(endBitIndex, currentBitCount)
       IN IF s.lastBitCount >= maxMatrixBits /\ currentBitCount > maxMatrixBits
            THEN performFullRefresh(s0)
          ELSE IF currentBitCount <= s.lastBitCount \/ s.isMatrixComplete
            THEN s0
          ELSE [s0 EXCEPT !.offscreen = updatePixelsBatch(@, s.uintArray,
                                                          s.lastBitCount, endBitIndex),
                          !.lastBitCount = last,
                          !.isMatrixComplete = IF last >= maxMatrixBits THEN TRUE ELSE @]

\* a digest is pushed onto the pool and the renderer is called
GridDigest ==
  /\ Len(uintArray) + DigestLen <= MaxPool
  /\ \E digest \in DigestInputs, pace \in PaceInputs :
       Commit(drawBitGridChunk([St EXCEPT !.uintArray = @ \o digest], pace))
  /\ UNCHANGED <<configVars, idleVars>>

\* the renderer is called with the pool as it is
GridInvoke ==
  /\ \E pace \in PaceInputs : Commit(drawBitGridChunk(St, pace))
  /\ UNCHANGED <<configVars, idleVars>>

\* updateInterval milliseconds have passed since the last call that was let in
IntervalElapsed ==
  /\ throttled
  /\ Commit([St EXCEPT !.throttled = FALSE])
  /\ UNCHANGED <<configVars, idleVars>>

NextGrid ==
  \/ GridDigest
  \/ GridInvoke
  \/ IntervalElapsed

\* the renderer keeps being called and time keeps passing
SpecGrid ==
  /\ Init
  /\ [][NextGrid]_vars
  /\ WF_vars(GridInvoke)
  /\ WF_vars(IntervalElapsed)

\* ------------------------------------------------------------ the claims
\* the state of a newly constructed AudioRNG with its collaborators
NewAudioRNG ==
  [rawBitBuffer |-> <<>>, finalBitBuffer |-> <<>>, collectedNumbers |-> <<>>,
   uintArray |-> <<>>, bitsEl |-> <<>>,
   lastBitCount |-> 0, rowAccumulator |-> <<>>,
   offscreen |-> BlankGrid(InitWidth, InitHeight),
   isGenerating |-> FALSE, requiredDataSize |-> 0,
   generatedFile |-> <<>>, fileInfo |-> <<"start">>,
   samples |-> <<>>, debiased |-> <<>>, hashCalls |-> 0,
   poolOrder |-> <<>>, frameHigh |-> 0, outOfOrder |-> FALSE,
   batchAfterEmit |-> 0, resetCount |-> 0,
   pulledHigh |-> 0, reread |-> FALSE, allTop |-> TRUE,
   twin |-> ClearedRenderer(InitWidth, InitHeight),
   isMatrixComplete |-> FALSE, throttled |-> FALSE,
   idleRedraw |-> FALSE, hashCallsAtReset |-> 0]

RawBits(ss) == [i \in 1..Len(ss) |-> ss[i] % 2]

\* the Von Neumann extractor over a whole raw bit stream: consecutive
\* non-overlapping pairs; an unequal pair yields its first bit, an equal pair nothing
RECURSIVE VonNeumannReference(_)
VonNeumannReference(raw) ==
  IF Len(raw) < 2 THEN <<>>
  ELSE (IF raw[1] # raw[2] THEN <<raw[1]>> ELSE <<>>)
         \o VonNeumannReference(SubSeq(raw, 3, Len(raw)))

\* C1: the debiased bits pushed by processSamples are the Von Neumann
\* extraction of the raw bits (sample & 1) of all samples read so far, taken
\* in consecutive non-overlapping pairs: (0,1) gives 0, (1,0) gives 1, equal
\* pairs give nothing.
C1_DebiasedIsVonNeumann ==
  debiased = VonNeumannReference(RawBits(samples))

\* raw 0,1,1,0,1,0,0,1 has been read and has given 0,1,1,0
C1_Witness ==
  /\ RawBits(samples) = <<0, 1, 1, 0, 1, 0, 0, 1>>
  /\ debiased = <<0, 1, 1, 0>>

\* C2: whatever the frames the samples arrived in, the debiased bits and the
\* buffers are those of one processSamples call on the concatenation of the
\* frames: a raw bit left over by a call is paired with the first bit of the next.
C2_FrameBoundariesInvisible ==
  LET one == processSamples(NewAudioRNG, samples, 1).st IN
  /\ debiased = one.debiased
  /\ rawBitBuffer = one.rawBitBuffer
  /\ finalBitBuffer = one.finalBitBuffer
  /\ collectedNumbers = one.collectedNumbers

\* two frames of one sample each: the bit left over by the first call was
\* paired with the bit of the second
C2_Witness ==
  /\ ticks = 2
  /\ samples = <<255, 128>>
  /\ debiased = <<1>>
  /\ rawBitBuffer = <<>>

\* C3: the k-th byte is 128*b0 + 64*b1 + ... + b7 of the k-th group of eight
\* debiased bits; a byte exists for every complete group and for nothing
\* else, and finalBitBuffer holds exactly the bits of the incomplete group.
C3_BytesMsbFirst ==
  /\ Len(collectedNumbers) = Len(debiased) \div 8
  /\ finalBitBuffer = SubSeq(debiased, 8 * Len(collectedNumbers) + 1, Len(debiased))
  /\ \A k \in 1..Len(collectedNumbers) :
       LET b == SubSeq(debiased, 8 * (k - 1) + 1, 8 * k) IN
       collectedNumbers[k] = 128 * b[1] + 64 * b[2] + 32 * b[3] + 16 * b[4]
                             + 8 * b[5] + 4 * b[6] + 2 * b[7] + b[8]

\* bits 1,0,1,1,0,0,1,0 have been packed into 178 and the accumulator is empty
C3_Witness ==
  /\ debiased = <<1, 0, 1, 1, 0, 0, 1, 0>>
  /\ collectedNumbers = <<178>>
  /\ finalBitBuffer = <<>>

\* C4: every sha256String call is made when collectedNumbers holds exactly
\* BatchSize bytes, on exactly those bytes, and the batch is empty right
\* after its digest has been appended.
C4_BatchesExactlyFull ==
  /\ \A k \in 1..Len(passes) :
       /\ Len(passes[k].str) = BatchSize
       /\ passes[k].batchLen = BatchSize
  /\ batchAfterEmit = 0

IsIncreasing(seq) == \A i \in 1..(Len(seq) - 1) : seq[i] < seq[i + 1]

\* C5: no sample is read after a sample of a later frame, and the digests of
\* the pool are in the order of their sha256String calls.
C5_StrictArrivalOrder ==
  /\ ~outOfOrder
  /\ IsIncreasing(poolOrder)

\* C6: while a processSamples call is suspended, the only step that changes
\* the pipeline buffers, the pool or the renderer's cursor is its own resumption;
\* no other callback runs in between.
C6_NoInterleaving ==
  [][passes # <<>> =>
       \/ HashResolved
       \/ UNCHANGED <<rawBitBuffer, finalBitBuffer, collectedNumbers, uintArray,
                      lastBitCount, rowAccumulator>>]_vars

\* C7: in a step without resetDataBuffer the pool does not get shorter, and
\* after a step with resetDataBuffer the pool is empty.
C7_PoolMonotone ==
  [][IF resetCount' # resetCount
       THEN Len(uintArray') = 0
       ELSE Len(uintArray') >= Len(uintArray)]_vars

\* a file has been made from the pool and the pool was reset
C7_Witness ==
  /\ resetCount > 0
  /\ generatedFile # <<>>
  /\ uintArray = <<>>

\* C8: a step with resetDataBuffer leaves the pool, lastBitCount and the row
\* accumulator empty together, and when the reset is the consumer's request
\* (no processSamples call resumed in the step) also the pending raw bit, the
\* debiased bits and the byte batch; an empty pool always goes with
\* lastBitCount 0.
C8_ResetAtomic ==
  [][/\ resetCount' # resetCount =>
          /\ uintArray' = <<>> /\ lastBitCount' = 0 /\ rowAccumulator' = <<>>
          /\ passes' = passes =>
               /\ rawBitBuffer' = <<>> /\ finalBitBuffer' = <<>>
               /\ collectedNumbers' = <<>>
     /\ uintArray' = <<>> => lastBitCount' = 0]_vars

\* a password was generated while the pipeline was running: everything is empty
C8_Witness ==
  /\ analyser = "node"
  /\ passwordBox = "password"
  /\ resetCount > 0
  /\ uintArray = <<>> /\ lastBitCount = 0 /\ rowAccumulator = <<>>
  /\ rawBitBuffer = <<>> /\ finalBitBuffer = <<>> /\ collectedNumbers = <<>>

\* C9: a resetDataBuffer while a file request is waiting (isGenerating with
\* requiredDataSize > 0) ends the wait, changes the awaited size or changes
\* the text shown to the waiting consumer.
C9_WaiterNotified ==
  [][(resetCount' # resetCount /\ isGenerating /\ requiredDataSize > 0) =>
       \/ ~isGenerating'
       \/ requiredDataSize' # requiredDataSize
       \/ fileInfo' # fileInfo]_vars

\* C10: stop() leaves the pending raw bit, the debiased bits, the byte batch
\* and the row accumulator empty.
C10_StopDiscards ==
  [][(analyser = "node" /\ analyser' = "null") =>
       /\ rawBitBuffer' = <<>> /\ finalBitBuffer' = <<>>
       /\ collectedNumbers' = <<>> /\ rowAccumulator' = <<>>]_vars

\* C12: lastBitCount never decreases except in a step that resets the entropy
\* pool: a step that lowers it is a resetDataBuffer step that leaves the pool
\* empty; start, a renderer setting or a refresh never lower it while the
\* pool keeps its bytes.
C12_CursorMonotone ==
  [][lastBitCount' < lastBitCount =>
       /\ resetCount' # resetCount
       /\ uintArray' = <<>>]_vars

\* C13: between two resets of the entropy pool no pool bit is pulled into the
\* renderer a second time.
C13_NoReread == ~reread

\* the pool as a bit stream, the first bit of a byte being its bit 7
PoolBits(arr) ==
  [i \in 1..(8 * Len(arr)) |->
     (arr[((i - 1) \div 8) + 1] \div (2 ^ (7 - ((i - 1) % 8)))) % 2]

\* C14: when every row since the grid was cleared went in at the top, the
\* grid row j from the top (j = 0 the top row) shows the (k-j)-th committed
\* row, k being the number of rows committed, one cell per bit (bit 1 the
\* one-colour, bit 0 the zero-colour); the rows below the committed ones are
\* unset and the grid never has more than its H rows.  Rows 1,0,1,0 then
\* 0,1,0,1 in a 4 x 2 grid give 0,1,0,1 over 1,0,1,0.
C14_ShiftThenInsert ==
  LET k == lastBitCount \div matrixWidth
      bits == PoolBits(uintArray)
      row(i) == SubSeq(bits, (i - 1) * matrixWidth + 1, i * matrixWidth)
  IN allTop =>
       /\ Len(offscreen) = matrixHeight
       /\ \A j \in 0..(matrixHeight - 1) :
            offscreen[j + 1] =
              IF j < k
                THEN [x \in 1..matrixWidth |->
                        IF row(k - j)[x] = 1 THEN ColorOne ELSE ColorZero]
                ELSE [x \in 1..matrixWidth |-> ClearColor]
       /\ (matrixWidth = 4 /\ matrixHeight = 2 /\ uintArray = <<165>>
           /\ lastBitCount = 8) =>
            offscreen = << <<ColorZero, ColorOne, ColorZero, ColorOne>>,
                           <<ColorOne, ColorZero, ColorOne, ColorZero>> >>

\* the rows 1,0,1,0 and 0,1,0,1 have been committed at the top of a 4 x 2 grid
C14_Witness ==
  /\ allTop /\ newestOnTop
  /\ matrixWidth = 4 /\ matrixHeight = 2
  /\ uintArray = <<165>> /\ lastBitCount = 8
  /\ offscreen = << <<"white", "black", "white", "black">>,
                    <<"black", "white", "black", "white">> >>

\* C15: a renderer that is given the same calls with the other insertion
\* direction has the same lastBitCount and the same row accumulator, and its
\* grid is this renderer's grid upside down.
C15_DirectionMirrors ==
  /\ twin.lastBitCount = lastBitCount
  /\ twin.rowAccumulator = rowAccumulator
  /\ twin.offscreen = Reverse(offscreen)

\* two different rows have gone in at the bottom; the twin has them at the top
C15_Witness ==
  /\ ~newestOnTop /\ ~allTop
  /\ matrixHeight >= 2
  /\ lastBitCount >= 2 * matrixWidth
  /\ offscreen[matrixHeight] # offscreen[matrixHeight - 1]
  /\ twin.offscreen[1] = offscreen[matrixHeight]
  /\ twin.offscreen[2] = offscreen[matrixHeight - 1]

\* C16: setMatrixSize(cols, rows) leaves lastBitCount 0, the row accumulator
\* empty and a grid of max(1, cols) x max(1, rows) cells that all have the
\* unset colour, whatever was rendered before.
C16_ResizeResets ==
  [][\A cols \in SizeInputs, rows \in SizeInputs :
       SetMatrixSize(cols, rows) =>
         /\ matrixWidth' = (IF cols >= 1 THEN cols ELSE 1)
         /\ matrixHeight' = (IF rows >= 1 THEN rows ELSE 1)
         /\ lastBitCount' = 0
         /\ rowAccumulator' = <<>>
         /\ Len(offscreen') = matrixHeight'
         /\ \A y \in 1..matrixHeight' :
              /\ Len(offscreen'[y]) = matrixWidth'
              /\ \A x \in 1..matrixWidth' : offscreen'[y][x] = ClearColor]_vars

\* the grid was resized to one column while the pool held rendered bytes
C16_Witness ==
  /\ matrixWidth = 1 /\ matrixHeight = 3
  /\ uintArray # <<>>
  /\ lastBitCount = 0 /\ rowAccumulator = <<>>
  /\ offscreen = <<<<"white">>, <<"white">>, <<"white">>>>

\* C11: when the renderer keeps being called and digests stop arriving,
\* lastBitCount ends up equal to the number of bits of the pool and stays
\* equal to it.
C11_RendererCatchesUp == <>[](lastBitCount = 8 * Len(uintArray))

\* a step that leaves the pool, the pipeline buffers, the renderer and the
\* suspended calls as they are
PipelineUntouched ==
  UNCHANGED <<uintArray, rawBitBuffer, finalBitBuffer, collectedNumbers,
              lastBitCount, rowAccumulator, offscreen, resetCount, passes>>

\* C17: a password or number request with fewer than MinEntropy pool bytes
\* shows the not-enough-data text, and a file request with fewer pool bytes
\* than its size (clamped to 1..FileSizeLimit) shows the collecting text and
\* starts the watch; none of them produces a password, numbers or a file, and
\* the pool, the pipeline buffers and the suspended calls stay as they are.
C17_InsufficientIsStatus ==
  [][/\ \A charsetLen \in CharsetInputs :
          (GeneratePasswordFrom(charsetLen) /\ Len(uintArray) < MinEntropy) =>
            /\ passwordBox' = "Not enough random data yet. Wait for hashing..."
            /\ PipelineUntouched
     /\ \A range \in RangeInputs :
          (GenerateNumbersIn(range[1], range[2]) /\ Len(uintArray) < MinEntropy) =>
            /\ numbersBox' = "Not enough random data yet. Wait for hashing..."
            /\ PipelineUntouched
     /\ \A n \in FileSizeInputs :
          (GenerateFileOf(n) /\ Len(uintArray) < Max(1, Min(FileSizeLimit, n))) =>
            /\ fileInfo' = <<"collecting", Max(1, Min(FileSizeLimit, n)), Len(uintArray)>>
            /\ isGenerating'
            /\ generatedFile' = generatedFile
            /\ PipelineUntouched]_vars

\* the three requests were made while the pipeline held partial bits and the
\* pool was too short: each shows its status and the partial bits are still there
C17_Witness ==
  /\ analyser = "node"
  /\ Len(uintArray) < MinEntropy
  /\ finalBitBuffer # <<>>
  /\ passwordBox = "Not enough random data yet. Wait for hashing..."
  /\ numbersBox = "Not enough random data yet. Wait for hashing..."
  /\ isGenerating /\ fileInfo[1] = "collecting"
  /\ generatedFile = <<>>

\* C18 as stated: a password request with an empty character set, or a number
\* request with min >= max, shows the error text, produces no output and
\* leaves the pool as it is.
C18_UnsatisfiableIsError ==
  [][/\ GeneratePasswordFrom(0) =>
          /\ passwordBox' = "Please select at least one character set."
          /\ PipelineUntouched
     /\ \A range \in RangeInputs :
          (GenerateNumbersIn(range[1], range[2]) /\ range[1] >= range[2]) =>
            /\ numbersBox' = "Error: Min value must be less than max value."
            /\ PipelineUntouched]_vars

\* C18 amended: when the pool holds at least MinEntropy bytes, such a request
\* shows the error text; with fewer bytes it shows the not-enough-data text
\* instead; in both cases no output is produced and the pool, the pipeline
\* buffers and the renderer stay as they are.
C18_UnsatisfiableIsErrorGivenEntropy ==
  [][/\ GeneratePasswordFrom(0) =>
          /\ passwordBox' =
               IF Len(uintArray) >= MinEntropy
                 THEN "Please select at least one character set."
                 ELSE "Not enough random data yet. Wait for hashing..."
          /\ PipelineUntouched
     /\ \A range \in RangeInputs :
          (GenerateNumbersIn(range[1], range[2]) /\ range[1] >= range[2]) =>
            /\ numbersBox' =
                 IF Len(uintArray) >= MinEntropy
                   THEN "Error: Min value must be less than max value."
                   ELSE "Not enough random data yet. Wait for hashing..."
            /\ PipelineUntouched]_vars

\* both errors are shown and the pool still holds its digest, never reset
C18_Witness ==
  /\ passwordBox = "Please select at least one character set."
  /\ numbersBox = "Error: Min value must be less than max value."
  /\ Len(uintArray) >= MinEntropy
  /\ resetCount = 0

\* C19: a file request waiting for N bytes while the pipeline runs leads to
\* the file of exactly N bytes with the waiting flag cleared, unless the
\* pipeline is stopped first; nothing but the arrival of digests is needed.
C19_WaitEndsByGrowth ==
  \A N \in 1..FileSizeLimit :
    (isGenerating /\ requiredDataSize = N /\ analyser = "node")
      ~> (~isGenerating /\ (\/ analyser = "null"
                            \/ /\ fileInfo = <<"generated", N>>
                               /\ Len(generatedFile) = N))

\* the first file made is the largest one, asked for while the pipeline runs
C19_Witness ==
  /\ ~isGenerating
  /\ requiredDataSize = FileSizeLimit
  /\ fileInfo = <<"generated", FileSizeLimit>>
  /\ Len(generatedFile) = FileSizeLimit
  /\ resetCount = 1
  /\ analyser = "node"

\* C21: whenever no processSamples call is running (between two steps, a
\* call suspended at the digest included) the byte batch holds fewer than
\* BatchSize bytes.
C21_BatchBelowThreshold == Len(collectedNumbers) < BatchSize

C23_PoolIsDigestsOfBatches ==
  /\ Len(uintArray) % DigestLen = 0
  /\ Len(uintArray) <= DigestLen * (hashCalls - hashCallsAtReset)
  /\ passes = <<>> => Len(uintArray) = DigestLen * (hashCalls - hashCallsAtReset)

\* C28: every digest in the pool is the digest of a sha256String call made
\* after the last resetDataBuffer, and lastBitCount is within the pool.
C28_NoStaleDigest ==
  /\ \A k \in 1..Len(poolOrder) : poolOrder[k] > hashCallsAtReset
  /\ lastBitCount <= 8 * Len(uintArray)

\* C24: a renderer call that moves lastBitCount moves it forward to
\* min(T, lastBitCount + chunk), T being the number of bits of the pool and
\* chunk the chunk size of the call, and lastBitCount never exceeds T.
C24_CursorAdvancesByChunk ==
  [][/\ lastBitCount' # lastBitCount =>
          \E pace \in PaceInputs :
            lastBitCount' = Min(8 * Len(uintArray'),
                                lastBitCount + calculateOptimalChunkSize(pace))
     /\ lastBitCount' <= 8 * Len(uintArray')]_vars

\* C25: the renderer presents the grid only in a call that committed at
\* least one row; a call that only adds bits to the row accumulator or
\* changes nothing does not redraw.
C25_RedrawOnlyOnRow == ~idleRedraw

\* C27: as long as the pool has never been reset, a step that appends a
\* digest appends the digest of exactly the bytes the batch holds at that
\* moment: the batch that is cleared is the batch that was hashed, so no
\* byte is dropped and no batch is appended a second time.
C27_EachBatchHashedOnce ==
  [][(resetCount' = 0 /\ Len(poolOrder') > Len(poolOrder)) =>
       \E k \in 1..Len(passes) :
         /\ passes[k].call = poolOrder'[Len(poolOrder')]
         /\ passes[k].str = collectedNumbers]_vars

\* C29: at most one drawLoop callback is scheduled at any time, and none is
\* scheduled while the pipeline is stopped.
C29_OneDriverLoop ==
  /\ rafQueue <= 1
  /\ analyser = "null" => rafQueue = 0

\* C26: with at least MinEntropy pool bytes and a non-empty character set
\* the password has a length in PwMin..PwMax and every character is the
\* character of the set chosen by a pool byte modulo the size of the set,
\* the bytes being the last bytes of the pool when the pool is long enough.
C26_PasswordFromPool ==
  [][\A charsetLen \in CharsetInputs, n \in PwLengthInputs :
       (/\ GeneratePasswordOf(charsetLen, n)
        /\ Len(uintArray) >= MinEntropy
        /\ charsetLen > 0) =>
         LET L == Len(password')
             len == Len(uintArray)
             charset == charsetOf(charsetLen)
         IN /\ L \in PwMin..PwMax
            /\ \A k \in 1..L :
                 \E idx \in 0..(len - 1) :
                   password'[k] = charset[(uintArray[idx + 1] % charsetLen) + 1]
            /\ L <= len =>
                 \A k \in 1..L :
                   password'[k] =
                     charset[(uintArray[len - L + k] % charsetLen) + 1]]_vars

\* a step that ran resetDataBuffer once and left the pool empty
PoolConsumed ==
  /\ uintArray' = <<>>
  /\ resetCount' = resetCount + 1

\* C30: a step that produces a password, numbers or a file resets the pool
\* in the same step, so the bytes it read are gone before the next request;
\* the file holds the first bytes of the pool as it was.
C30_OutputConsumesPool ==
  [][/\ \A charsetLen \in CharsetInputs :
          (GeneratePasswordFrom(charsetLen) /\ passwordBox' = "password") =>
            PoolConsumed
     /\ \A range \in RangeInputs :
          (GenerateNumbersIn(range[1], range[2]) /\ numbersBox' = "numbers") =>
            PoolConsumed
     /\ \A n \in FileSizeInputs :
          (GenerateFileOf(n) /\ ~isGenerating') =>
            /\ PoolConsumed
            /\ generatedFile' = SubSeq(uintArray, 1, Max(1, Min(FileSizeLimit, n)))
     /\ (HashResolved /\ isGenerating /\ ~isGenerating') =>
          /\ PoolConsumed
          /\ Len(generatedFile') = requiredDataSize]_vars

\* a password and numbers have been generated, each from its own digest
C30_Witness ==
  /\ passwordBox = "password"
  /\ numbersBox = "numbers"
  /\ resetCount = 2
  /\ uintArray = <<>>

====
